---- MODULE Spec2Model ----
(***************************************************************************)
(* A model of the podcast processing API (src/main.py, src/db.py).         *)
(*                                                                         *)
(* Text is a sequence of one-character strings.  A JSON value is a record  *)
(* [k |-> kind, v |-> payload]; a Python dict is the sequence of its       *)
(* [key, val] pairs in insertion order (keys unique).                      *)
(***************************************************************************)
EXTENDS Integers, Sequences, FiniteSets, TLC

\* ------------------------------------------------------------------ bounds
MaxLen == 4
MaxOptions == 6
NQuizReq == 3
NUploads == 2

\* ------------------------------------------------------ program constants
OptionLimit == 4
HTTP_OK == 200
HTTP_NOT_FOUND == 404
HTTP_ERROR == 500

\* -------------------------------------------------------------- characters
Whitespace == {" ", "\n"}
Digits == {"0", "1", "2", "3", "4", "5", "6", "7", "8", "9"}
QUOTE == "\""

Ch(s, i) == IF i >= 1 /\ i <= Len(s) THEN s[i] ELSE "EOF"

RECURSIVE lstrip(_)
lstrip(s) ==
  IF s # <<>> /\ Head(s) \in Whitespace THEN lstrip(Tail(s)) ELSE s

RECURSIVE rstrip(_)
rstrip(s) ==
  IF s # <<>> /\ s[Len(s)] \in Whitespace
  THEN rstrip(SubSeq(s, 1, Len(s) - 1)) ELSE s

\* str.strip()
strip(s) == rstrip(lstrip(s))

LowerChar(c) ==
  CASE c = "A" -> "a"
    [] c = "B" -> "b"
    [] c = "Q" -> "q"
    [] OTHER -> c

\* str.lower()
lower(s) == [i \in 1..Len(s) |-> LowerChar(s[i])]

endswith(s, c) == s # <<>> /\ s[Len(s)] = c

\* ---------------------------------------------------------- JSON Repair
RECURSIVE SkipWs(_, _)
SkipWs(s, i) == IF Ch(s, i) \in Whitespace THEN SkipWs(s, i + 1) ELSE i

\* The regular expression ,(\s*[\]}]) matches at i: a comma, any whitespace,
\* then one closing bracket.
CommaMatch(s, i) == Ch(s, i) = "," /\ Ch(s, SkipWs(s, i + 1)) \in {"]", "}"}

\* re.sub(r",(\s*[\]}])", r"\1", s) on s[lo..hi]: a match is replaced by its
\* group 1, the whitespace and the bracket, so it loses its comma and nothing
\* else; a match holds one comma, so no match hides another and every comma
\* at which the expression matches is removed.  Halving keeps the recursion
\* shallow on long texts.
RECURSIVE resub(_, _, _)
resub(s, lo, hi) ==
  IF lo > hi THEN <<>>
  ELSE IF lo = hi THEN (IF CommaMatch(s, lo) THEN <<>> ELSE <<s[lo]>>)
  ELSE LET mid == (lo + hi) \div 2
       IN resub(s, lo, mid) \o resub(s, mid + 1, hi)

TrailingCommasRemoved(text) ==
  LET s == strip(text) IN resub(s, 1, Len(s))

BraceNoAppend(t) == t

BraceFix(t) == IF ~endswith(t, "}") THEN t \o <<"}">> ELSE t

sanitize_json_output(text) == BraceFix(TrailingCommasRemoved(text))

\* ------------------------------------------------------------ json.loads
StrV(s) == [k |-> "str", v |-> s]
NumV(s) == [k |-> "num", v |-> s]
ArrV(a) == [k |-> "arr", v |-> a]
ObjV(d) == [k |-> "obj", v |-> d]
NullV == [k |-> "null", v |-> <<>>]

Ok(val, next) == [ok |-> TRUE, val |-> val, next |-> next]
Fail == [ok |-> FALSE, val |-> NullV, next |-> 0]

RECURSIVE DictHas(_, _)
DictHas(d, key) ==
  d # <<>> /\ (Head(d).key = key \/ DictHas(Tail(d), key))

RECURSIVE DictGet(_, _)
DictGet(d, key) ==
  IF Head(d).key = key THEN Head(d).val ELSE DictGet(Tail(d), key)

\* d[key] = val: a new key goes last, an existing key keeps its place.
DictSet(d, key, val) ==
  IF DictHas(d, key)
  THEN [i \in 1..Len(d) |-> IF d[i].key = key
                            THEN [key |-> key, val |-> val] ELSE d[i]]
  ELSE Append(d, [key |-> key, val |-> val])

RECURSIVE StrEnd(_, _)
StrEnd(s, i) ==
  IF i > Len(s) THEN 0 ELSE IF s[i] = QUOTE THEN i ELSE StrEnd(s, i + 1)

ParseStr(s, i) ==
  LET j == StrEnd(s, i + 1)
  IN IF j = 0 THEN Fail ELSE Ok(StrV(SubSeq(s, i + 1, j - 1)), j + 1)

RECURSIVE NumEnd(_, _)
NumEnd(s, i) == IF Ch(s, i) \in Digits THEN NumEnd(s, i + 1) ELSE i

ParseNum(s, i) ==
  LET j == NumEnd(s, i) IN Ok(NumV(SubSeq(s, i, j - 1)), j)

ParseNull(s, i) ==
  IF i + 3 <= Len(s) /\ SubSeq(s, i, i + 3) = <<"n", "u", "l", "l">>
  THEN Ok(NullV, i + 4) ELSE Fail

RECURSIVE ParseValue(_, _)
RECURSIVE ParseElems(_, _, _)
RECURSIVE ParseMembers(_, _, _)

ParseValue(s, i) ==
  LET c == Ch(s, i)
  IN CASE c = QUOTE -> ParseStr(s, i)
       [] c \in Digits -> ParseNum(s, i)
       [] c = "n" -> ParseNull(s, i)
       [] c = "[" ->
            LET j == SkipWs(s, i + 1)
            IN IF Ch(s, j) = "]" THEN Ok(ArrV(<<>>), j + 1)
               ELSE ParseElems(s, j, <<>>)
       [] c = "{" ->
            LET j == SkipWs(s, i + 1)
            IN IF Ch(s, j) = "}" THEN Ok(ObjV(<<>>), j + 1)
               ELSE ParseMembers(s, j, <<>>)
       [] OTHER -> Fail

ParseElems(s, i, acc) ==
  LET r == ParseValue(s, i)
  IN IF ~r.ok THEN Fail
     ELSE LET j == SkipWs(s, r.next)
              acc2 == Append(acc, r.val)
          IN CASE Ch(s, j) = "," -> ParseElems(s, SkipWs(s, j + 1), acc2)
               [] Ch(s, j) = "]" -> Ok(ArrV(acc2), j + 1)
               [] OTHER -> Fail

ParseMembers(s, i, acc) ==
  IF Ch(s, i) # QUOTE THEN Fail
  ELSE LET key == ParseStr(s, i)
       IN IF ~key.ok THEN Fail
          ELSE LET c == SkipWs(s, key.next)
               IN IF Ch(s, c) # ":" THEN Fail
                  ELSE LET r == ParseValue(s, SkipWs(s, c + 1))
                       IN IF ~r.ok THEN Fail
                          ELSE LET j == SkipWs(s, r.next)
                                   acc2 == DictSet(acc, key.val.v, r.val)
                               IN CASE Ch(s, j) = "," ->
                                         ParseMembers(s, SkipWs(s, j + 1), acc2)
                                    [] Ch(s, j) = "}" -> Ok(ObjV(acc2), j + 1)
                                    [] OTHER -> Fail

\* json.loads(text): one value, whitespace around it, nothing else;
\* ok = FALSE is json.JSONDecodeError.
json_loads(text) ==
  LET r == ParseValue(text, SkipWs(text, 1))
  IN IF r.ok /\ SkipWs(text, r.next) = Len(text) + 1 THEN r ELSE Fail

\* ------------------------------------------------------- Quiz Normalizer
KeyQuestion == <<"q", "u", "e", "s", "t", "i", "o", "n">>
KeyOptions == <<"o", "p", "t", "i", "o", "n", "s">>
KeyCorrectAnswer ==
  <<"c", "o", "r", "r", "e", "c", "t", "_", "a", "n", "s", "w", "e", "r">>

EmptyDict == <<>>

Returned(q) == [out |-> "return", quiz |-> q]
Raised == [out |-> "raise", quiz |-> EmptyDict]

\* len(x): defined on lists, strings and dicts; TypeError otherwise.
HasLen(val) == val.k \in {"arr", "str", "obj"}

\* x[:4] of a list or a string.
Truncate(val) == [val EXCEPT !.v = SubSeq(val.v, 1, OptionLimit)]

\* generate_quiz_question from the model's answer on: sanitize, parse, truncate.
\* The sanitized text ends in "}", so what parses is an object.
Normalize(output_text) ==
  LET parsed == json_loads(sanitize_json_output(strip(output_text)))
      quiz == parsed.val.v
  IN IF ~parsed.ok THEN Returned(EmptyDict)
     ELSE IF ~DictHas(quiz, KeyOptions) THEN Returned(quiz)
     ELSE LET options == DictGet(quiz, KeyOptions)
          IN IF ~HasLen(options) THEN Raised
             ELSE IF Len(options.v) <= OptionLimit THEN Returned(quiz)
             ELSE IF options.k = "obj" THEN Raised
             ELSE Returned(DictSet(quiz, KeyOptions, Truncate(options)))

\* ------------------------------------- the language model's possible answers
DigitOf == <<"0", "1", "2", "3", "4", "5", "6", "7", "8", "9">>

RECURSIVE str(_)
str(n) ==
  IF n < 10 THEN <<DigitOf[n + 1]>>
  ELSE str(n \div 10) \o <<DigitOf[(n % 10) + 1]>>

Quoted(s) == <<QUOTE>> \o s \o <<QUOTE>>

RECURSIVE Join(_)
Join(parts) ==
  IF parts = <<>> THEN <<>>
  ELSE IF Len(parts) = 1 THEN parts[1]
  ELSE parts[1] \o <<",">> \o Join(Tail(parts))

OptionsText(shape) ==
  CASE shape.kind = "arr" ->
         <<"[">> \o Join([i \in 1..shape.n |-> Quoted(str(i))]) \o <<"]">>
    [] shape.kind = "num" -> str(shape.n)
    [] shape.kind = "null" -> <<"n", "u", "l", "l">>

Member(key, valtext) == Quoted(key) \o <<":">> \o valtext

Members(shape, ans) ==
  <<Member(KeyQuestion, Quoted(<<"Q">>))>>
  \o (IF shape.kind = "absent" THEN <<>>
      ELSE <<Member(KeyOptions, OptionsText(shape))>>)
  \o (IF ans.has THEN <<Member(KeyCorrectAnswer, Quoted(ans.s))>> ELSE <<>>)

Defects == {"none", "comma", "nobrace", "comma_nobrace", "padded", "prose"}

ModelText(shape, ans, defect) ==
  LET body == <<"{">> \o Join(Members(shape, ans))
  IN CASE defect = "none" -> body \o <<"}">>
       [] defect = "comma" -> body \o <<",", " ", "}">>
       [] defect = "nobrace" -> body
       [] defect = "comma_nobrace" -> body \o <<",">>
       [] defect = "padded" -> <<" ">> \o body \o <<"}", "\n">>
       [] defect = "prose" -> <<"O", "K", ":">> \o body \o <<"}">>

OptionShapes ==
  [kind : {"arr"}, n : 0..MaxOptions]
  \cup {[kind |-> "absent", n |-> 0], [kind |-> "num", n |-> 5],
        [kind |-> "null", n |-> 0]}

AnswerTexts == {<<"a">>, <<" ", "A", " ">>, <<"B">>}

AnswerChoices ==
  [has : {TRUE}, s : AnswerTexts] \cup {[has |-> FALSE, s |-> <<>>]}

ModelOutputs ==
  {ModelText(sh, a, d) : sh \in OptionShapes, a \in AnswerChoices, d \in Defects}
  \cup {<<"{", "}">>}

RepairAlphabet == {"{", "}", "]", ",", " ", "a"}

ShortTexts == UNION {[1..n -> RepairAlphabet] : n \in 0..MaxLen}

\* ------------------------------------------------------------------ state
VARIABLES
  raw, stage, sanitized, twice, result,      \* the repair pipeline on one text
  running,          \* the request whose handler holds the event loop, or 0
  quiz_storage,     \* main.py:46, a dict from identifier to quiz record
  pc, quiz, quiz_id, response,               \* /generate-quiz requests
  registered,       \* history: the registrations, in the order they stored
  reply,            \* the last response of a submit-answer or podcast lookup
  upc, filename, fd, files, inodes,          \* /process-podcast requests
  transcript, upload_quiz, uresp,
  podcast_data,     \* the table podcast_data of db.py
  outbox,           \* the emails sent
  envfail, failed, steps                     \* history of each upload

rvars == <<raw, stage, sanitized, twice, result>>
qvars == <<quiz_storage, pc, quiz, quiz_id, response, registered>>
pvars == <<upc, filename, fd, files, inodes, transcript, upload_quiz, uresp,
           podcast_data, outbox, envfail, failed, steps>>
vars == <<rvars, running, qvars, reply, pvars>>

QuizReqs == 1..NQuizReq
Uploads == 1..NUploads

NoReply ==
  [ep |-> "none", status |-> 0, absent |-> FALSE, quiz_id |-> <<>>,
   answer |-> <<>>, correct |-> FALSE, correct_answer |-> <<>>, id |-> 0]

RepairIdle ==
  /\ raw = <<>>
  /\ stage = 0
  /\ sanitized = <<>>
  /\ twice = <<>>
  /\ result = Returned(EmptyDict)

QuizIdle ==
  /\ pc = [r \in QuizReqs |-> "done"]
  /\ quiz = [r \in QuizReqs |-> EmptyDict]
  /\ quiz_id = [r \in QuizReqs |-> <<>>]
  /\ response = [r \in QuizReqs |-> <<>>]
  /\ registered = <<>>

PodcastIdle ==
  /\ upc = [r \in Uploads |-> "done"]
  /\ filename = [r \in Uploads |-> "a.mp3"]
  /\ fd = [r \in Uploads |-> 0]
  /\ files = [f \in {"a.mp3", "b.mp3"} |-> 0]
  /\ inodes = <<>>
  /\ transcript = [r \in Uploads |-> 0]
  /\ upload_quiz = [r \in Uploads |-> EmptyDict]
  /\ uresp = [r \in Uploads |-> <<>>]
  /\ podcast_data = <<>>
  /\ outbox = <<>>
  /\ envfail = [r \in Uploads |-> FALSE]
  /\ failed = [r \in Uploads |-> "none"]
  /\ steps = [r \in Uploads |-> <<>>]

\* ------------------------------------------------------- repair pipeline
InitRepair ==
  /\ raw \in ShortTexts \cup ModelOutputs
  /\ stage = 0
  /\ sanitized = <<>>
  /\ twice = <<>>
  /\ result = Returned(EmptyDict)
  /\ running = 0
  /\ quiz_storage = EmptyDict
  /\ QuizIdle
  /\ reply = NoReply
  /\ PodcastIdle

Sanitize ==
  /\ stage = 0
  /\ sanitized' = sanitize_json_output(raw)
  /\ stage' = 1
  /\ UNCHANGED <<raw, twice, result>>
  /\ UNCHANGED <<running, qvars, reply, pvars>>

SanitizeAgain ==
  /\ stage = 1
  /\ twice' = sanitize_json_output(sanitized)
  /\ stage' = 2
  /\ UNCHANGED <<raw, sanitized, result>>
  /\ UNCHANGED <<running, qvars, reply, pvars>>

NormalizeStep ==
  /\ stage = 2
  /\ result' = Normalize(raw)
  /\ stage' = 3
  /\ UNCHANGED <<raw, sanitized, twice>>
  /\ UNCHANGED <<running, qvars, reply, pvars>>

NextRepair == Sanitize \/ SanitizeAgain \/ NormalizeStep

SpecRepair == InitRepair /\ [][NextRepair]_vars

\* ------------------------------------------------------------ event loop
\* Every endpoint is an "async def": its handler runs on the one event loop
\* and gives it up only at an await.  `resuming` says the handler is at its
\* start or at an await; anywhere else it goes on only while it holds the loop.
RunnableThreaded(task, resuming) == TRUE

Runnable(task, resuming) ==
  IF resuming THEN running = 0 ELSE running = task

\* --------------------------------------------------------- /generate-quiz
\* What the language model answers to the quiz prompt in these runs.
QuizOutputs ==
  { ModelText([kind |-> "arr", n |-> 5], [has |-> TRUE, s |-> <<" ", "A", " ">>], "nobrace"),
    ModelText([kind |-> "arr", n |-> 4], [has |-> FALSE, s |-> <<>>], "none"),
    ModelText([kind |-> "arr", n |-> 4], [has |-> TRUE, s |-> <<"B">>], "prose"),
    ModelText([kind |-> "num", n |-> 5], [has |-> TRUE, s |-> <<"a">>], "none") }

NextQuizIdStale(storage) == str(Len(storage))

\* str(len(quiz_storage) + 1)
NextQuizId(storage) == str(Len(storage) + 1)

Status(code) == [status |-> code, quiz_id |-> <<>>, quiz |-> EmptyDict]

\* main.py:264, generate_quiz_question: the model call, then the Normalizer.
QuizGenerate(r) ==
  /\ pc[r] = "start"
  /\ Runnable(r, TRUE)
  /\ running' = r
  /\ \/ /\ pc' = [pc EXCEPT ![r] = "except"]        \* the model call raises
        /\ UNCHANGED quiz
     \/ \E out \in QuizOutputs :
          LET res == Normalize(out)
          IN IF res.out = "raise"
             THEN pc' = [pc EXCEPT ![r] = "except"] /\ UNCHANGED quiz
             ELSE /\ pc' = [pc EXCEPT ![r] = "check"]
                  /\ quiz' = [quiz EXCEPT ![r] = res.quiz]
  /\ UNCHANGED <<quiz_storage, quiz_id, response, registered>>
  /\ UNCHANGED <<rvars, reply, pvars>>

\* main.py:265, "if not quiz: raise HTTPException(500)".
QuizCheck(r) ==
  /\ pc[r] = "check"
  /\ Runnable(r, FALSE)
  /\ pc' = [pc EXCEPT ![r] = IF quiz[r] = EmptyDict THEN "except" ELSE "assign"]
  /\ UNCHANGED <<running, quiz_storage, quiz, quiz_id, response, registered>>
  /\ UNCHANGED <<rvars, reply, pvars>>

\* main.py:268.
QuizAssign(r) ==
  /\ pc[r] = "assign"
  /\ Runnable(r, FALSE)
  /\ quiz_id' = [quiz_id EXCEPT ![r] = NextQuizId(quiz_storage)]
  /\ pc' = [pc EXCEPT ![r] = "store"]
  /\ UNCHANGED <<running, quiz_storage, quiz, response, registered>>
  /\ UNCHANGED <<rvars, reply, pvars>>

\* main.py:269.
QuizStore(r) ==
  /\ pc[r] = "store"
  /\ Runnable(r, FALSE)
  /\ quiz_storage' = DictSet(quiz_storage, quiz_id[r], ObjV(quiz[r]))
  /\ registered' = Append(registered, [quiz_id |-> quiz_id[r], quiz |-> quiz[r]])
  /\ pc' = [pc EXCEPT ![r] = "return"]
  /\ UNCHANGED <<running, quiz, quiz_id, response>>
  /\ UNCHANGED <<rvars, reply, pvars>>

\* main.py:271.
QuizReturn(r) ==
  /\ pc[r] = "return"
  /\ Runnable(r, FALSE)
  /\ response' = [response EXCEPT ![r] =
       <<[status |-> HTTP_OK, quiz_id |-> quiz_id[r], quiz |-> quiz[r]]>>]
  /\ pc' = [pc EXCEPT ![r] = "done"]
  /\ running' = 0
  /\ quiz' = [quiz EXCEPT ![r] = EmptyDict]          \* the locals are gone
  /\ quiz_id' = [quiz_id EXCEPT ![r] = <<>>]
  /\ UNCHANGED <<quiz_storage, registered>>
  /\ UNCHANGED <<rvars, reply, pvars>>

\* main.py:273-274.
QuizExcept(r) ==
  /\ pc[r] = "except"
  /\ Runnable(r, FALSE)
  /\ response' = [response EXCEPT ![r] = <<Status(HTTP_ERROR)>>]
  /\ pc' = [pc EXCEPT ![r] = "done"]
  /\ running' = 0
  /\ quiz' = [quiz EXCEPT ![r] = EmptyDict]          \* the locals are gone
  /\ quiz_id' = [quiz_id EXCEPT ![r] = <<>>]
  /\ UNCHANGED <<quiz_storage, registered>>
  /\ UNCHANGED <<rvars, reply, pvars>>

\* ---------------------------------------------------- /quiz/submit-answer
SubmittedIds == {str(k) : k \in 1..(NQuizReq + 1)} \cup {<<"0", "1">>}

SubmittedAnswers == {<<"a">>, <<"A", " ">>, <<" ", "b">>}

\* quiz_storage.get(quiz_id): the record, or None (here the empty dict; both
\* are falsy, and no empty record is ever stored).
StorageGet(quiz_id_) ==
  IF DictHas(quiz_storage, quiz_id_) THEN DictGet(quiz_storage, quiz_id_).v
  ELSE EmptyDict

SubmitAnswerPop(quiz_id_, answer) ==
  /\ Runnable(0, TRUE)
  /\ quiz_storage' = SelectSeq(quiz_storage, LAMBDA e : e.key # quiz_id_)
  /\ reply' = [NoReply EXCEPT !.ep = "submit", !.quiz_id = quiz_id_]
  /\ UNCHANGED <<running, pc, quiz, quiz_id, response, registered>>
  /\ UNCHANGED <<rvars, pvars>>

\* main.py:277-286.  An exception that leaves the handler is answered 500.
SubmitAnswer(quiz_id_, answer) ==
  /\ Runnable(0, TRUE)
  /\ LET stored == StorageGet(quiz_id_)
         r0 == [NoReply EXCEPT !.ep = "submit", !.quiz_id = quiz_id_,
                               !.answer = answer]
     IN reply' =
          IF stored = EmptyDict
          THEN [r0 EXCEPT !.status = HTTP_NOT_FOUND, !.absent = TRUE]
          ELSE IF ~DictHas(stored, KeyCorrectAnswer)
               THEN [r0 EXCEPT !.status = HTTP_ERROR]          \* KeyError
          ELSE LET ca == DictGet(stored, KeyCorrectAnswer)
               IN IF ca.k # "str"
                  THEN [r0 EXCEPT !.status = HTTP_ERROR]       \* AttributeError
                  ELSE [r0 EXCEPT !.status = HTTP_OK,
                                  !.correct = (lower(strip(answer)) = lower(strip(ca.v))),
                                  !.correct_answer = ca.v]
  /\ UNCHANGED <<running, qvars, rvars, pvars>>

\* ------------------------------------------------------- /process-podcast
Filenames == {"a.mp3", "b.mp3"}

\* What the language model answers to the quiz prompt in these runs.
UploadOutputs ==
  { ModelText([kind |-> "arr", n |-> 5], [has |-> TRUE, s |-> <<"a">>], "nobrace"),
    ModelText([kind |-> "arr", n |-> 4], [has |-> TRUE, s |-> <<"B">>], "prose"),
    ModelText([kind |-> "null", n |-> 0], [has |-> TRUE, s |-> <<"a">>], "none") }

\* The audio of upload r is r; its transcript, summary and takeaways are
\* determined by the audio.
Summary(t) == [summary_of |-> t]
Takeaways(t) == [takeaways_of |-> t]

NextStepPersistFirst(step) ==
  CASE step = "transcribe" -> "summarize"
    [] step = "summarize" -> "takeaways"
    [] step = "takeaways" -> "quiz"
    [] step = "quiz" -> "persist"
    [] step = "persist" -> "notify"
    [] step = "notify" -> "return"

\* The statement after each call in the try block of upload_audio.
NextStep(step) ==
  CASE step = "transcribe" -> "summarize"
    [] step = "summarize" -> "takeaways"
    [] step = "takeaways" -> "quiz"
    [] step = "quiz" -> "notify"
    [] step = "notify" -> "persist"
    [] step = "persist" -> "return"

OnRaiseContinue(step) == NextStep(step)

\* An exception anywhere in the try block goes to "except Exception".
OnRaise(step) == "except"

\* Request r's call `step` raises; env says an external collaborator failed.
Raise(r, step, env) ==
  /\ upc' = [upc EXCEPT ![r] = OnRaise(step)]
  /\ failed' = [failed EXCEPT ![r] = step]
  /\ envfail' = [envfail EXCEPT ![r] = envfail[r] \/ env]

Proceed(r, step) ==
  /\ upc' = [upc EXCEPT ![r] = NextStep(step)]
  /\ UNCHANGED <<failed, envfail>>

At(r, step) ==
  /\ upc[r] = step
  /\ Runnable(r, FALSE)
  /\ steps' = [steps EXCEPT ![r] = Append(steps[r], step)]

\* main.py:206-210 up to the await: open(file_path, "wb") creates or truncates.
UploadOpen(r) ==
  /\ upc[r] = "start"
  /\ Runnable(r, TRUE)
  /\ LET path == filename[r]
     IN IF files[path] = 0
        THEN /\ inodes' = Append(inodes, 0)
             /\ files' = [files EXCEPT ![path] = Len(inodes) + 1]
             /\ fd' = [fd EXCEPT ![r] = Len(inodes) + 1]
        ELSE /\ inodes' = [inodes EXCEPT ![files[path]] = 0]
             /\ fd' = [fd EXCEPT ![r] = files[path]]
             /\ UNCHANGED files
  /\ upc' = [upc EXCEPT ![r] = "read"]
  /\ UNCHANGED <<running, filename, transcript, upload_quiz, uresp,
                 podcast_data, outbox, envfail, failed, steps>>
  /\ UNCHANGED <<rvars, qvars, reply>>

\* main.py:210 after the await: f.write(...), then the with block closes f.
UploadWrite(r) ==
  /\ upc[r] = "read"
  /\ Runnable(r, TRUE)
  /\ running' = r
  /\ inodes' = [inodes EXCEPT ![fd[r]] = r]
  /\ fd' = [fd EXCEPT ![r] = 0]
  /\ upc' = [upc EXCEPT ![r] = "transcribe"]
  /\ UNCHANGED <<filename, files, transcript, upload_quiz, uresp,
                 podcast_data, outbox, envfail, failed, steps>>
  /\ UNCHANGED <<rvars, qvars, reply>>

\* main.py:212, transcribe_audio(file_path) reads the file at the path.
UploadTranscribe(r) ==
  /\ At(r, "transcribe")
  /\ LET ino == files[filename[r]]
     IN IF ino = 0 \/ inodes[ino] = 0
        THEN Raise(r, "transcribe", FALSE) /\ UNCHANGED transcript
        ELSE \/ Raise(r, "transcribe", TRUE) /\ UNCHANGED transcript
             \/ /\ Proceed(r, "transcribe")
                /\ transcript' = [transcript EXCEPT ![r] = inodes[ino]]
  /\ UNCHANGED <<running, filename, fd, files, inodes, upload_quiz, uresp,
                 podcast_data, outbox>>
  /\ UNCHANGED <<rvars, qvars, reply>>

\* main.py:213.
UploadSummarize(r) ==
  /\ At(r, "summarize")
  /\ Raise(r, "summarize", TRUE) \/ Proceed(r, "summarize")
  /\ UNCHANGED <<running, filename, fd, files, inodes, transcript, upload_quiz,
                 uresp, podcast_data, outbox>>
  /\ UNCHANGED <<rvars, qvars, reply>>

\* main.py:214.
UploadTakeaways(r) ==
  /\ At(r, "takeaways")
  /\ Raise(r, "takeaways", TRUE) \/ Proceed(r, "takeaways")
  /\ UNCHANGED <<running, filename, fd, files, inodes, transcript, upload_quiz,
                 uresp, podcast_data, outbox>>
  /\ UNCHANGED <<rvars, qvars, reply>>

\* main.py:215.
UploadQuiz(r) ==
  /\ At(r, "quiz")
  /\ \/ Raise(r, "quiz", TRUE) /\ UNCHANGED upload_quiz
     \/ \E out \in UploadOutputs :
          LET res == Normalize(out)
          IN IF res.out = "raise"
             THEN Raise(r, "quiz", TRUE) /\ UNCHANGED upload_quiz
             ELSE /\ Proceed(r, "quiz")
                  /\ upload_quiz' = [upload_quiz EXCEPT ![r] = res.quiz]
  /\ UNCHANGED <<running, filename, fd, files, inodes, transcript, uresp,
                 podcast_data, outbox>>
  /\ UNCHANGED <<rvars, qvars, reply>>

\* main.py:217, send_detail("Podcast summary", summary).
UploadNotify(r) ==
  /\ At(r, "notify")
  /\ \/ Raise(r, "notify", TRUE) /\ UNCHANGED outbox
     \/ /\ Proceed(r, "notify")
        /\ outbox' = Append(outbox, [subject |-> "Detail from Podcast",
                                     summary |-> Summary(transcript[r])])
  /\ UNCHANGED <<running, filename, fd, files, inodes, transcript, upload_quiz,
                 uresp, podcast_data>>
  /\ UNCHANGED <<rvars, qvars, reply>>

\* db.py:23-33: one INSERT, id AUTOINCREMENT; nothing is committed on an error.
save_podcast_data(table, t, summary, takeaways, quiz_) ==
  Append(table, [id |-> Len(table) + 1, transcript |-> t, summary |-> summary,
                 takeaways |-> takeaways, quiz |-> quiz_])

\* main.py:220.
UploadPersist(r) ==
  /\ At(r, "persist")
  /\ \/ Raise(r, "persist", TRUE) /\ UNCHANGED podcast_data
     \/ /\ Proceed(r, "persist")
        /\ podcast_data' =
             save_podcast_data(podcast_data, transcript[r], Summary(transcript[r]),
                               Takeaways(transcript[r]), upload_quiz[r])
  /\ UNCHANGED <<running, filename, fd, files, inodes, transcript, upload_quiz,
                 uresp, outbox>>
  /\ UNCHANGED <<rvars, qvars, reply>>

\* main.py:222-228.
UploadReturn(r) ==
  /\ upc[r] = "return"
  /\ Runnable(r, FALSE)
  /\ uresp' = [uresp EXCEPT ![r] =
       Append(uresp[r], [status |-> HTTP_OK, transcript |-> transcript[r]])]
  /\ upc' = [upc EXCEPT ![r] = "finally"]
  /\ UNCHANGED <<running, filename, fd, files, inodes, transcript, upload_quiz,
                 podcast_data, outbox, envfail, failed, steps>>
  /\ UNCHANGED <<rvars, qvars, reply>>

\* main.py:229-230.
UploadExcept(r) ==
  /\ upc[r] = "except"
  /\ Runnable(r, FALSE)
  /\ uresp' = [uresp EXCEPT ![r] =
       Append(uresp[r], [status |-> HTTP_ERROR, transcript |-> 0])]
  /\ upc' = [upc EXCEPT ![r] = "finally"]
  /\ UNCHANGED <<running, filename, fd, files, inodes, transcript, upload_quiz,
                 podcast_data, outbox, envfail, failed, steps>>
  /\ UNCHANGED <<rvars, qvars, reply>>

\* main.py:231-233: remove the file at the path if there is one.
UploadFinally(r) ==
  /\ upc[r] = "finally"
  /\ Runnable(r, FALSE)
  /\ files' = [files EXCEPT ![filename[r]] = 0]
  /\ upc' = [upc EXCEPT ![r] = "done"]
  /\ running' = 0
  /\ transcript' = [transcript EXCEPT ![r] = 0]      \* the locals are gone
  /\ upload_quiz' = [upload_quiz EXCEPT ![r] = EmptyDict]
  /\ UNCHANGED <<filename, fd, inodes, uresp, podcast_data, outbox, envfail,
                 failed, steps>>
  /\ UNCHANGED <<rvars, qvars, reply>>

\* ----------------------------------------- /latest-podcast, /podcasts/{id}
\* db.py:35-46: the row with the greatest id, or None (0).
get_latest_podcast_data == Len(podcast_data)

\* db.py:61-72: the row with this id, or None (0).
get_podcast_by_id(podcast_id) ==
  IF podcast_id \in 1..Len(podcast_data) THEN podcast_id ELSE 0

\* "except Exception as e: raise HTTPException(status_code=500, ...)" catches
\* whatever the try block raised, the handler's own HTTPException included.
Caught(raised) == HTTP_ERROR

\* main.py:293-299 and 304-310, given the row the query returned.
LookupReply(ep, id, row) ==
  [NoReply EXCEPT !.ep = ep, !.id = id, !.absent = (row = 0),
                  !.status = IF row = 0 THEN Caught(HTTP_NOT_FOUND) ELSE HTTP_OK]

GetLatest ==
  /\ Runnable(0, TRUE)
  /\ \/ reply' = LookupReply("latest", 0, get_latest_podcast_data)
     \/ reply' = [NoReply EXCEPT !.ep = "latest", !.status = Caught(HTTP_ERROR)]
  /\ UNCHANGED <<running, rvars, qvars, pvars>>

GetById(podcast_id) ==
  /\ Runnable(0, TRUE)
  /\ \/ reply' = LookupReply("by_id", podcast_id, get_podcast_by_id(podcast_id))
     \/ reply' = [NoReply EXCEPT !.ep = "by_id", !.id = podcast_id,
                                 !.status = Caught(HTTP_ERROR)]
  /\ UNCHANGED <<running, rvars, qvars, pvars>>

InitPodcast ==
  /\ RepairIdle
  /\ running = 0
  /\ quiz_storage = EmptyDict
  /\ QuizIdle
  /\ reply = NoReply
  /\ upc = [r \in Uploads |-> "start"]
  /\ filename \in [Uploads -> Filenames]
  /\ fd = [r \in Uploads |-> 0]
  /\ files = [f \in Filenames |-> 0]
  /\ inodes = <<>>
  /\ transcript = [r \in Uploads |-> 0]
  /\ upload_quiz = [r \in Uploads |-> EmptyDict]
  /\ uresp = [r \in Uploads |-> <<>>]
  /\ podcast_data = <<>>
  /\ outbox = <<>>
  /\ envfail = [r \in Uploads |-> FALSE]
  /\ failed = [r \in Uploads |-> "none"]
  /\ steps = [r \in Uploads |-> <<>>]

NextPodcast ==
  \/ \E r \in Uploads : UploadOpen(r)
  \/ \E r \in Uploads : UploadWrite(r)
  \/ \E r \in Uploads : UploadTranscribe(r)
  \/ \E r \in Uploads : UploadSummarize(r)
  \/ \E r \in Uploads : UploadTakeaways(r)
  \/ \E r \in Uploads : UploadQuiz(r)
  \/ \E r \in Uploads : UploadNotify(r)
  \/ \E r \in Uploads : UploadPersist(r)
  \/ \E r \in Uploads : UploadReturn(r)
  \/ \E r \in Uploads : UploadExcept(r)
  \/ \E r \in Uploads : UploadFinally(r)

SpecPodcast == InitPodcast /\ [][NextPodcast]_vars

\* The uploads together with the lookups of persisted records and of quizzes.
NextService ==
  \/ NextPodcast
  \/ GetLatest
  \/ \E k \in 1..(NUploads + 1) : GetById(k)
  \/ \E i \in SubmittedIds, a \in SubmittedAnswers : SubmitAnswer(i, a)

SpecService == InitPodcast /\ [][NextService]_vars

InitQuiz ==
  /\ RepairIdle
  /\ running = 0
  /\ quiz_storage = EmptyDict
  /\ pc = [r \in QuizReqs |-> "start"]
  /\ quiz = [r \in QuizReqs |-> EmptyDict]
  /\ quiz_id = [r \in QuizReqs |-> <<>>]
  /\ response = [r \in QuizReqs |-> <<>>]
  /\ registered = <<>>
  /\ reply = NoReply
  /\ PodcastIdle

NextQuiz ==
  \/ \E r \in QuizReqs : QuizGenerate(r)
  \/ \E r \in QuizReqs : QuizCheck(r)
  \/ \E r \in QuizReqs : QuizAssign(r)
  \/ \E r \in QuizReqs : QuizStore(r)
  \/ \E r \in QuizReqs : QuizReturn(r)
  \/ \E r \in QuizReqs : QuizExcept(r)
  \/ \E i \in SubmittedIds, a \in SubmittedAnswers : SubmitAnswer(i, a)

SpecQuiz == InitQuiz /\ [][NextQuiz]_vars

\* ================================================================= claims
IsPrefix(a, b) == Len(a) <= Len(b) /\ a = SubSeq(b, 1, Len(a))

Min(a, b) == IF a <= b THEN a ELSE b

Replied(r, code) == response[r] # <<>> /\ response[r][1].status = code

\* ---- C1 (SpecQuiz).  The k-th registration to store got the identifier
\* str(k); no two registrations got the same identifier; the store holds
\* exactly the registered records, each under its identifier and as it was
\* stored; and every identifier returned to a caller is one of them, with the
\* record that was returned.
C1_RoundTrip ==
  /\ Len(quiz_storage) = Len(registered)
  /\ \A k \in 1..Len(registered) :
       /\ registered[k].quiz_id = <<DigitOf[k + 1]>>
       /\ DictHas(quiz_storage, registered[k].quiz_id)
       /\ StorageGet(registered[k].quiz_id) = registered[k].quiz
       /\ \A j \in 1..Len(registered) :
            j # k => registered[j].quiz_id # registered[k].quiz_id
  /\ \A r \in QuizReqs :
       Replied(r, HTTP_OK) =>
         \E k \in 1..Len(registered) :
           /\ registered[k].quiz_id = response[r][1].quiz_id
           /\ registered[k].quiz = response[r][1].quiz

\* Two different records registered, and an answer to one of them checked.
C1_Witness ==
  /\ Len(registered) >= 2
  /\ registered[1].quiz # registered[2].quiz
  /\ reply.ep = "submit"
  /\ reply.status = HTTP_OK
  /\ \E r \in QuizReqs : Replied(r, HTTP_OK) /\ response[r][1].quiz_id = str(2)

\* ---- C2 (SpecQuiz), as claimed: registration is not atomic, that is, while
\* one request is between its read of the store size (main.py:268) and its
\* write (main.py:269), another request that is waiting can run its handler.
C2_Interleaves ==
  \A r1 \in QuizReqs, r2 \in QuizReqs :
    (r1 # r2 /\ pc[r1] = "store" /\ pc[r2] = "start") => ENABLED QuizGenerate(r2)

InHandler(r) == pc[r] \in {"check", "assign", "store", "return", "except"}

\* ---- C2 (SpecQuiz), amended: registration is atomic.  No two requests are
\* inside the handler at once, so no request reads the store size between
\* another's read and write; two requests never hold the same identifier, and
\* every successful request's record is in the store under its identifier.
C2_RegistrationAtomic ==
  /\ \A r1 \in QuizReqs, r2 \in QuizReqs :
       r1 # r2 => ~(InHandler(r1) /\ InHandler(r2))
  /\ \A r1 \in QuizReqs, r2 \in QuizReqs :
       (r1 # r2 /\ quiz_id[r1] # <<>>) => quiz_id[r1] # quiz_id[r2]
  /\ \A r1 \in QuizReqs, r2 \in QuizReqs :
       (r1 # r2 /\ Replied(r1, HTTP_OK) /\ Replied(r2, HTTP_OK)) =>
         response[r1][1].quiz_id # response[r2][1].quiz_id
  /\ \A r \in QuizReqs :
       Replied(r, HTTP_OK) =>
         StorageGet(response[r][1].quiz_id) = response[r][1].quiz

\* One request has read the size and not yet written, another is waiting,
\* while an earlier registration is already in the store.
C2_Witness ==
  \E r1 \in QuizReqs, r2 \in QuizReqs :
    /\ r1 # r2
    /\ pc[r1] = "store"
    /\ pc[r2] = "start"
    /\ Len(quiz_storage) >= 1

\* ---- C9 (SpecQuiz).  Every step that changes the store is the store step of
\* a registration, which appends one entry under a key that was not there and
\* keeps the others; a generation that fails leaves the store as it was and
\* returns no identifier; so does an answer submission.
C9_StoreFrame ==
  [][ /\ quiz_storage' # quiz_storage =>
           \E r \in QuizReqs :
             /\ pc[r] = "store" /\ pc'[r] = "return"
             /\ ~DictHas(quiz_storage, quiz_id[r])
             /\ quiz_storage' =
                  Append(quiz_storage, [key |-> quiz_id[r], val |-> ObjV(quiz[r])])
      /\ \A r \in QuizReqs :
           (pc[r] = "except" /\ pc'[r] = "done") =>
             /\ quiz_storage' = quiz_storage
             /\ quiz_id[r] = <<>>
             /\ response'[r] = <<Status(HTTP_ERROR)>>
      /\ reply' # reply => quiz_storage' = quiz_storage
    ]_vars

\* A failed generation, a filled store and a submission, found or not.
C9_Witness ==
  /\ \E r \in QuizReqs : Replied(r, HTTP_ERROR)
  /\ Len(quiz_storage) >= 2
  /\ reply.ep = "submit"
  /\ reply.absent

EqualTrimmedIgnoringCase(a, b) == lower(strip(a)) = lower(strip(b))

\* ---- C5 (SpecQuiz), as claimed: for every registered identifier and every
\* answer, submit-answer reports whether the answer and the stored
\* correct_answer are equal after trimming and ignoring case, and returns the
\* stored correct_answer unchanged.
C5_AnswerCheck ==
  (reply.ep = "submit" /\ ~reply.absent) =>
    LET stored == StorageGet(reply.quiz_id)
    IN /\ reply.status = HTTP_OK
       /\ DictHas(stored, KeyCorrectAnswer)
       /\ reply.correct_answer = DictGet(stored, KeyCorrectAnswer).v
       /\ reply.correct <=>
            EqualTrimmedIgnoringCase(reply.answer, reply.correct_answer)

\* C5 restricted to records that hold a string correct_answer: this holds.
C5_OnRecordsWithAnswer ==
  (reply.ep = "submit" /\ ~reply.absent) =>
    LET stored == StorageGet(reply.quiz_id)
    IN (DictHas(stored, KeyCorrectAnswer)
        /\ DictGet(stored, KeyCorrectAnswer).k = "str") =>
         /\ reply.status = HTTP_OK
         /\ reply.correct_answer = DictGet(stored, KeyCorrectAnswer).v
         /\ reply.correct <=>
              EqualTrimmedIgnoringCase(reply.answer, reply.correct_answer)

\* ---- C6 (SpecService), as claimed: a lookup of something that does not
\* exist, a quiz identifier or a persisted record, is answered 404.
C6_NotFound == reply.absent => reply.status = HTTP_NOT_FOUND

\* ---- C7 (SpecRepair).
Count(s, c) == Cardinality({i \in 1..Len(s) : s[i] = c})

\* Exactly one "}" is appended when the text, trimmed and with its trailing
\* commas removed, does not end in "}"; otherwise nothing is.
AppendsOneBrace ==
  LET t == TrailingCommasRemoved(raw)
  IN IF endswith(t, "}") THEN sanitized = t
     ELSE /\ Len(sanitized) = Len(t) + 1
          /\ SubSeq(sanitized, 1, Len(t)) = t
          /\ sanitized[Len(sanitized)] = "}"

\* C7 as claimed: the brace rule, and repair(repair(t)) = repair(t) for every t.
C7_Idempotent ==
  /\ stage >= 1 => AppendsOneBrace
  /\ stage >= 2 => twice = sanitized

\* A text the repair leaves alone: trimmed, and no comma before a closing
\* bracket.
Stable(t) == strip(t) = t /\ \A i \in 1..Len(t) : ~CommaMatch(t, i)

\* C7 amended: the brace rule; the repaired text ends in "}", so a second
\* repair appends no further brace; and the second repair returns the
\* repaired text unchanged exactly when the repaired text has no leading
\* whitespace and no comma followed, whitespace aside, by "}" or "]".
C7_RepairTwice ==
  /\ stage >= 1 => (AppendsOneBrace /\ endswith(sanitized, "}"))
  /\ stage >= 2 =>
       /\ endswith(twice, "}")
       /\ Count(twice, "}") = Count(sanitized, "}")
       /\ (twice = sanitized) <=> Stable(sanitized)

\* A text that needs the brace and that a second repair changes again.
C7_Witness ==
  /\ stage = 2
  /\ ~endswith(TrailingCommasRemoved(raw), "}")
  /\ twice # sanitized

\* ---- C8 (SpecRepair), as claimed: whenever the repaired text parses, the
\* Normalizer returns the parsed record with its options cut to the first
\* min(4, n) in their order, and every other field as parsed.
C8_Truncates ==
  stage = 3 =>
    LET parsed == json_loads(sanitized)
        src == parsed.val.v
    IN parsed.ok =>
         /\ result.out = "return"
         /\ Len(result.quiz) = Len(src)
         /\ \A i \in 1..Len(src) :
              /\ result.quiz[i].key = src[i].key
              /\ src[i].key # KeyOptions => result.quiz[i].val = src[i].val
         /\ DictHas(src, KeyOptions) =>
              LET o == DictGet(src, KeyOptions).v
              IN DictGet(result.quiz, KeyOptions).v = SubSeq(o, 1, Min(4, Len(o)))

\* C8 restricted to records whose options are absent or a list: this holds.
C8_OnListOptions ==
  stage = 3 =>
    LET parsed == json_loads(sanitized)
        src == parsed.val.v
    IN (parsed.ok /\ (DictHas(src, KeyOptions) => DictGet(src, KeyOptions).k = "arr")) =>
         /\ result.out = "return"
         /\ Len(result.quiz) = Len(src)
         /\ \A i \in 1..Len(src) :
              /\ result.quiz[i].key = src[i].key
              /\ src[i].key # KeyOptions => result.quiz[i].val = src[i].val
         /\ DictHas(src, KeyOptions) =>
              LET o == DictGet(src, KeyOptions).v
              IN DictGet(result.quiz, KeyOptions).v = SubSeq(o, 1, Min(4, Len(o)))

\* ---- C3 (SpecPodcast).
Persisted(r) == \E i \in 1..Len(podcast_data) : podcast_data[i].transcript = r

Notified(r) == \E i \in 1..Len(outbox) : outbox[i].summary = Summary(r)

ClaimedOrder ==
  <<"transcribe", "summarize", "takeaways", "quiz", "persist", "notify">>

CodeOrder ==
  <<"transcribe", "summarize", "takeaways", "quiz", "notify", "persist">>

\* C3 as claimed: the steps of a request run in the order transcription,
\* summarization, takeaways, quiz, persistence, notification; a notification
\* is sent only once the record is persisted.
C3_NotifyAfterPersist ==
  \A r \in Uploads :
    /\ IsPrefix(steps[r], ClaimedOrder)
    /\ Notified(r) => Persisted(r)

\* C3 amended: the steps run in the order transcription, summarization,
\* takeaways, quiz, notification, persistence; the record is persisted only
\* once the notification has been sent.
C3_PersistAfterNotify ==
  \A r \in Uploads :
    /\ IsPrefix(steps[r], CodeOrder)
    /\ Persisted(r) => Notified(r)

\* A request that ran all six steps and whose record is in the table.
C3_Witness ==
  \E r \in Uploads : steps[r] = CodeOrder /\ Persisted(r) /\ Notified(r)

C10_Independent ==
  \A r \in Uploads :
    upc[r] = "done" =>
      uresp[r] = << IF envfail[r]
                    THEN [status |-> HTTP_ERROR, transcript |-> 0]
                    ELSE [status |-> HTTP_OK, transcript |-> r] >>

\* C10 restricted to requests whose filename no other request shares: this
\* holds.
C10_WithOwnFilename ==
  \A r \in Uploads :
    (upc[r] = "done" /\ \A o \in Uploads : o # r => filename[o] # filename[r]) =>
      uresp[r] = << IF envfail[r]
                    THEN [status |-> HTTP_ERROR, transcript |-> 0]
                    ELSE [status |-> HTTP_OK, transcript |-> r] >>
====
